---- MODULE Spec2Model ----
(***************************************************************************)
(* Model of pyGPIO/gpio/gpioout.py: the process-wide registry _THREADS,    *)
(* GPIOThread (start / stop / join) and LED (on / off / blink / close,     *)
(* _stop_blink, _blink_device).                                            *)
(*                                                                         *)
(* One controlling path calls the LED methods; every GPIOThread that has   *)
(* been started runs _blink_device concurrently with it.  Time is          *)
(* abstracted: a timed wait returns either because the Event is set or     *)
(* because the timeout ran out, and the bounded join of stop() may run out *)
(* at any moment while the thread is alive.                                *)
(***************************************************************************)
EXTENDS Integers, Sequences, FiniteSets, TLC

\* ---------------------------------------------------------------- bounds
\* Largest finite n passed to blink().
MaxCount == 2
\* Number of GPIOThread objects the controlling path may create.
MaxTasks == 2
\* Length of the recorded history of driver calls and thread starts.
MaxLog == 2 * MaxCount + 2

\* ------------------------------------------------------------- constants
\* self._blink_thread = None
NoThread == 0
\* n=None: blink forever (repeat(0) without a count).
Forever == 0 - 1
\* The controlling path, as the author of a history entry.
Controller == 0

TaskIds == 1 .. MaxTasks
Counts == (0 .. MaxCount) \cup {Forever}

VARIABLES
    \* --- program state
    _THREADS,       \* the module-level set of started, not yet joined threads
    _blink_thread,  \* LED._blink_thread: NoThread or a task id
    stopping,       \* GPIOThread.stopping (Event flag) of every task
    tpc,            \* position of every task's execution unit
    remaining,      \* iterations left in the task's repeat(0, n) (Forever: repeat(0))
    nextId,         \* identity of the next GPIOThread object to be created
    pin,            \* level last written with gpio.output: "unset", "high", "low"
    \* --- the controlling path
    pc,             \* position of the controlling path inside the current call
    op,             \* the LED method being (or last) called
    arg_n,          \* blink's n
    arg_background, \* blink's background
    \* --- history (read by the properties only)
    result,         \* outcome of the current call: "pending", "ok", "zombie"
    prevOp,         \* the call before the current one
    prevResult,     \* and its outcome
    callTarget,     \* _blink_thread when the current call began
    callAlive,      \* whether that task's unit was alive when the call began
    confirmed,      \* tasks on which a join has returned normally
    cancelPhase,    \* wait at which a unit saw its Event set since the call began
    afterStop,      \* pin writes of a unit since stop() set its Event (up to 2)
    log             \* driver calls and thread starts since the current call began

vars == << _THREADS, _blink_thread, stopping, tpc, remaining, nextId, pin,
           pc, op, arg_n, arg_background,
           result, prevOp, prevResult, callTarget, callAlive, confirmed,
           cancelPhase, afterStop, log >>

prog == << _THREADS, _blink_thread, stopping, tpc, remaining, nextId, pin >>
call == << op, arg_n, arg_background, prevOp, prevResult, callTarget, callAlive >>

\* ------------------------------------------------------------- helpers

\* Thread.is_alive(): started and run() has not returned.
is_alive(t) == t \in TaskIds /\ tpc[t] \in {"loop", "wait_on", "write_off", "wait_off"}

\* start() has been called on the task.
started(t) == t \in TaskIds /\ tpc[t] \notin {"none", "created"}

Alive == {t \in TaskIds : is_alive(t)}

Event(by, ev, arg) == [by |-> by, ev |-> ev, arg |-> arg]

\* The history keeps the last MaxLog entries.
Record(l, e) == IF Len(l) < MaxLog THEN Append(l, e) ELSE Append(Tail(l), e)

\* LED._write as seen by the driver: gpio.output(self.port, 1) or (…, 0).
Level(value) == IF value THEN "high" ELSE "low"

\* LED._write(value) issued by `by`.
_write(by, value) ==
    /\ pin' = Level(value)
    /\ log' = Record(log, Event(by, Level(value), 0))
    /\ afterStop' = IF by \in TaskIds /\ stopping[by] /\ afterStop < 2
                       THEN afterStop + 1
                       ELSE afterStop

\* ---------------------------------------------------------------- Init
\* Module load: _THREADS = set(); no LED has been constructed yet.
Init ==
    /\ _THREADS = {}
    /\ _blink_thread = NoThread
    /\ stopping = [t \in TaskIds |-> FALSE]
    /\ tpc = [t \in TaskIds |-> "none"]
    /\ remaining = [t \in TaskIds |-> 0]
    /\ nextId = 1
    /\ pin = "unset"
    /\ pc = "new"
    /\ op = "none"
    /\ arg_n = 0
    /\ arg_background = FALSE
    /\ result = "ok"
    /\ prevOp = "none"
    /\ prevResult = "ok"
    /\ callTarget = NoThread
    /\ callAlive = FALSE
    /\ confirmed = {}
    /\ cancelPhase = "none"
    /\ afterStop = 0
    /\ log = << >>

\* ------------------------------------------------------ controlling path

\* LED.__init__: gpio.init(); gpio.setcfg(port, 1).  No level is written.
LED_init ==
    /\ pc = "new"
    /\ pc' = "idle"
    /\ op' = "__init__"
    /\ _blink_thread' = NoThread
    /\ log' = << Event(Controller, "init", 0), Event(Controller, "setcfg", 0) >>
    /\ result' = "ok"
    /\ UNCHANGED << _THREADS, stopping, tpc, remaining, nextId, pin,
                    arg_n, arg_background, prevOp, prevResult, callTarget,
                    callAlive, confirmed >>
    /\ UNCHANGED << cancelPhase, afterStop >>

\* The caller enters on(), off(), close() or blink(n=n, background=bg).
Call(o, n, bg) ==
    /\ pc = "idle"
    /\ o = "blink" => nextId <= MaxTasks
    /\ pc' = "stop"
    /\ op' = o
    /\ arg_n' = n
    /\ arg_background' = bg
    /\ prevOp' = op
    /\ prevResult' = result
    /\ result' = "pending"
    /\ callTarget' = _blink_thread
    /\ callAlive' = is_alive(_blink_thread)
    /\ log' = << >>
    /\ UNCHANGED << prog, confirmed >>
    /\ cancelPhase' = "none"
    /\ UNCHANGED afterStop

CallOn == Call("on", 0, FALSE)
CallOff == Call("off", 0, FALSE)
CallClose == Call("close", 0, FALSE)
CallBlink == \E n \in Counts, bg \in BOOLEAN : Call("blink", n, bg)

\* Variant of StopBlink: stop() sets the Event and returns without joining.
StopBlinkNoJoin ==
    /\ pc = "stop"
    /\ IF _blink_thread # NoThread
          THEN stopping' = [stopping EXCEPT ![_blink_thread] = TRUE]
          ELSE UNCHANGED stopping
    /\ pc' = "clear"
    /\ UNCHANGED << _THREADS, _blink_thread, tpc, remaining, nextId, pin,
                    call, result, confirmed, log >>
    /\ afterStop' = IF _blink_thread # NoThread /\ ~ stopping[_blink_thread]
                       THEN 0
                       ELSE afterStop
    /\ UNCHANGED cancelPhase

\* _stop_blink, line 125-126, and GPIOThread.stop line 42: with a current
\* task, set its Event and go on to the bounded join; without one, skip.
StopBlink ==
    /\ pc = "stop"
    /\ IF _blink_thread # NoThread
          THEN /\ stopping' = [stopping EXCEPT ![_blink_thread] = TRUE]
               /\ pc' = "join"
          ELSE /\ pc' = "clear"
               /\ UNCHANGED stopping
    /\ UNCHANGED << _THREADS, _blink_thread, tpc, remaining, nextId, pin,
                    call, result, confirmed, log >>
    /\ afterStop' = IF _blink_thread # NoThread /\ ~ stopping[_blink_thread]
                       THEN 0
                       ELSE afterStop
    /\ UNCHANGED cancelPhase

\* Variant of JoinDead: join() returns after the wait without is_alive().
JoinUnchecked ==
    /\ pc = "join"
    /\ _THREADS' = _THREADS \ {_blink_thread}
    /\ confirmed' = confirmed \cup {_blink_thread}
    /\ pc' = "clear"
    /\ UNCHANGED << _blink_thread, stopping, tpc, remaining, nextId, pin,
                    call, result, log >>
    /\ UNCHANGED << cancelPhase, afterStop >>

\* Variant of JoinDead: join() returns without discarding the task.
JoinDeadKeeps ==
    /\ pc = "join"
    /\ ~ is_alive(_blink_thread)
    /\ confirmed' = confirmed \cup {_blink_thread}
    /\ pc' = "clear"
    /\ UNCHANGED << prog, call, result, log, cancelPhase, afterStop >>

\* GPIOThread.join(timeout) inside stop(): the unit is dead, so the task is
\* discarded from _THREADS and stop() returns.
JoinDead ==
    /\ pc = "join"
    /\ ~ is_alive(_blink_thread)
    /\ _THREADS' = _THREADS \ {_blink_thread}
    /\ confirmed' = confirmed \cup {_blink_thread}
    /\ pc' = "clear"
    /\ UNCHANGED << _blink_thread, stopping, tpc, remaining, nextId, pin,
                    call, result, log >>
    /\ UNCHANGED << cancelPhase, afterStop >>

\* Variant of JoinZombie: _stop_blink clears the reference in a finally.
JoinZombieClears ==
    /\ pc = "join"
    /\ is_alive(_blink_thread)
    /\ _blink_thread' = NoThread
    /\ result' = "zombie"
    /\ pc' = "idle"
    /\ UNCHANGED << _THREADS, stopping, tpc, remaining, nextId, pin,
                    call, confirmed, log >>
    /\ UNCHANGED << cancelPhase, afterStop >>

\* Variant of JoinZombie: join() discards the task before it raises.
JoinZombieDiscards ==
    /\ pc = "join"
    /\ is_alive(_blink_thread)
    /\ _THREADS' = _THREADS \ {_blink_thread}
    /\ result' = "zombie"
    /\ pc' = "idle"
    /\ UNCHANGED << _blink_thread, stopping, tpc, remaining, nextId, pin,
                    call, confirmed, log >>
    /\ UNCHANGED << cancelPhase, afterStop >>

\* Variant of JoinZombie: the LED method catches ZombieThread and goes on.
JoinZombieCaught ==
    /\ pc = "join"
    /\ is_alive(_blink_thread)
    /\ result' = "zombie"
    /\ pc' = "clear"
    /\ UNCHANGED << prog, call, confirmed, log >>
    /\ UNCHANGED << cancelPhase, afterStop >>

\* GPIOThread.join(timeout) inside stop(): the timeout ran out and the unit
\* is still alive, so ZombieThread is raised.  Nothing catches it: the LED
\* method is left at once, line 127 included.
JoinZombie ==
    /\ pc = "join"
    /\ is_alive(_blink_thread)
    /\ result' = "zombie"
    /\ pc' = "idle"
    /\ UNCHANGED << prog, call, confirmed, log >>
    /\ UNCHANGED << cancelPhase, afterStop >>

\* Variant of ClearBlinkThread: line 127 is missing.
KeepBlinkThread ==
    /\ pc = "clear"
    /\ pc' = "act"
    /\ UNCHANGED << prog, call, result, confirmed, log >>
    /\ UNCHANGED << cancelPhase, afterStop >>

\* _stop_blink, line 127: self._blink_thread = None.
ClearBlinkThread ==
    /\ pc = "clear"
    /\ _blink_thread' = NoThread
    /\ pc' = "act"
    /\ UNCHANGED << _THREADS, stopping, tpc, remaining, nextId, pin,
                    call, result, confirmed, log >>
    /\ UNCHANGED << cancelPhase, afterStop >>

\* on(), line 91.
On ==
    /\ pc = "act" /\ op = "on"
    /\ _write(Controller, TRUE)
    /\ result' = "ok"
    /\ pc' = "idle"
    /\ UNCHANGED << _THREADS, _blink_thread, stopping, tpc, remaining, nextId,
                    call, confirmed >>
    /\ UNCHANGED cancelPhase

\* off(), line 95.
Off ==
    /\ pc = "act" /\ op = "off"
    /\ _write(Controller, FALSE)
    /\ result' = "ok"
    /\ pc' = "idle"
    /\ UNCHANGED << _THREADS, _blink_thread, stopping, tpc, remaining, nextId,
                    call, confirmed >>
    /\ UNCHANGED cancelPhase

\* Variant of Close: close() also drives the pin low.
CloseWritesLow ==
    /\ pc = "act" /\ op = "close"
    /\ pin' = "low"
    /\ log' = Record(Record(log, Event(Controller, "low", 0)),
                     Event(Controller, "init", 0))
    /\ result' = "ok"
    /\ pc' = "idle"
    /\ UNCHANGED << _THREADS, _blink_thread, stopping, tpc, remaining, nextId,
                    call, confirmed >>
    /\ UNCHANGED << cancelPhase, afterStop >>

\* close(), line 87: gpio.init().
Close ==
    /\ pc = "act" /\ op = "close"
    /\ log' = Record(log, Event(Controller, "init", 0))
    /\ result' = "ok"
    /\ pc' = "idle"
    /\ UNCHANGED << prog, call, confirmed >>
    /\ UNCHANGED << cancelPhase, afterStop >>

\* blink(), line 118: a new GPIOThread becomes the current task.
BlinkCreate ==
    /\ pc = "act" /\ op = "blink"
    /\ nextId \in TaskIds
    /\ _blink_thread' = nextId
    /\ tpc' = [tpc EXCEPT ![nextId] = "created"]
    /\ remaining' = [remaining EXCEPT ![nextId] = arg_n]
    /\ nextId' = nextId + 1
    /\ pc' = "start"
    /\ UNCHANGED << _THREADS, stopping, pin, call, result, confirmed, log >>
    /\ UNCHANGED << cancelPhase, afterStop >>

\* Variant of BlinkStart: start() does not add the task to _THREADS.
BlinkStartUnregistered ==
    /\ pc = "start"
    /\ stopping' = [stopping EXCEPT ![_blink_thread] = FALSE]
    /\ tpc' = [tpc EXCEPT ![_blink_thread] = "loop"]
    /\ log' = Record(log, Event(Controller, "start", _blink_thread))
    /\ IF arg_background
          THEN pc' = "idle" /\ result' = "ok"
          ELSE pc' = "sjoin" /\ UNCHANGED result
    /\ UNCHANGED << _THREADS, _blink_thread, remaining, nextId, pin, call,
                    confirmed >>
    /\ UNCHANGED << cancelPhase, afterStop >>

\* blink(), line 119, GPIOThread.start: clear the Event, register, run.
\* With background=True blink() returns here.
BlinkStart ==
    /\ pc = "start"
    /\ stopping' = [stopping EXCEPT ![_blink_thread] = FALSE]
    /\ _THREADS' = _THREADS \cup {_blink_thread}
    /\ tpc' = [tpc EXCEPT ![_blink_thread] = "loop"]
    /\ log' = Record(log, Event(Controller, "start", _blink_thread))
    /\ IF arg_background
          THEN pc' = "idle" /\ result' = "ok"
          ELSE pc' = "sjoin" /\ UNCHANGED result
    /\ UNCHANGED << _blink_thread, remaining, nextId, pin, call, confirmed >>
    /\ UNCHANGED << cancelPhase, afterStop >>

\* blink(), line 121: join() without timeout returns once the unit is dead.
BlinkJoin ==
    /\ pc = "sjoin"
    /\ ~ is_alive(_blink_thread)
    /\ _THREADS' = _THREADS \ {_blink_thread}
    /\ confirmed' = confirmed \cup {_blink_thread}
    /\ pc' = "sclear"
    /\ UNCHANGED << _blink_thread, stopping, tpc, remaining, nextId, pin,
                    call, result, log >>
    /\ UNCHANGED << cancelPhase, afterStop >>

\* Variant of BlinkClear: line 122 is missing.
BlinkKeepsThread ==
    /\ pc = "sclear"
    /\ result' = "ok"
    /\ pc' = "idle"
    /\ UNCHANGED << prog, call, confirmed, log >>
    /\ UNCHANGED << cancelPhase, afterStop >>

\* blink(), line 122: self._blink_thread = None, and blink() returns.
BlinkClear ==
    /\ pc = "sclear"
    /\ _blink_thread' = NoThread
    /\ result' = "ok"
    /\ pc' = "idle"
    /\ UNCHANGED << _THREADS, stopping, tpc, remaining, nextId, pin,
                    call, confirmed, log >>
    /\ UNCHANGED << cancelPhase, afterStop >>

\* ------------------------------------------------------- the toggle unit

ctl == << pc, op, arg_n, arg_background, result, prevOp, prevResult,
          callTarget, callAlive, confirmed >>

\* self._blink_thread.stopping.wait(timeout), lines 133 and 136, evaluated
\* by a unit: the attribute is looked up on the LED at that moment (WaitOf
\* gives the outcome for a value of the attribute).  The outcomes are
\* "break" (Event set), "go" (timeout ran out) and "error" (AttributeError
\* on None, which ends the unit).
\* Variant of WaitOf: the wait never reports the Event (a plain sleep).
WaitOfSleeps(ref) ==
    IF ref = NoThread THEN "error" ELSE "go"

WaitOf(ref) ==
    IF ref = NoThread THEN "error"
    ELSE IF stopping[ref] THEN "break" ELSE "go"

Wait == WaitOf(_blink_thread)

\* Variant of LoopNext: the loop ends one iteration early (repeat(0, n - 1)).
LoopNextShort(t) ==
    /\ tpc[t] = "loop"
    /\ IF remaining[t] \in {0, 1}
          THEN /\ tpc' = [tpc EXCEPT ![t] = "done"]
               /\ UNCHANGED << remaining, pin, log, afterStop >>
          ELSE /\ remaining' = [remaining EXCEPT ![t] =
                                  IF @ = Forever THEN Forever ELSE @ - 1]
               /\ _write(t, TRUE)
               /\ tpc' = [tpc EXCEPT ![t] = "wait_on"]
    /\ UNCHANGED << _THREADS, _blink_thread, stopping, nextId, ctl >>
    /\ UNCHANGED cancelPhase

\* Variant of LoopNext: n=None is taken as no iteration (repeat(0, n or 0)).
LoopNextNoneIsZero(t) ==
    /\ tpc[t] = "loop"
    /\ IF remaining[t] \in {0, Forever}
          THEN /\ tpc' = [tpc EXCEPT ![t] = "done"]
               /\ UNCHANGED << remaining, pin, log, afterStop >>
          ELSE /\ remaining' = [remaining EXCEPT ![t] = @ - 1]
               /\ _write(t, TRUE)
               /\ tpc' = [tpc EXCEPT ![t] = "wait_on"]
    /\ UNCHANGED << _THREADS, _blink_thread, stopping, nextId, ctl >>
    /\ UNCHANGED cancelPhase

\* Variant of LoopNext: a finite count is never used up.
LoopNextNoCount(t) ==
    /\ tpc[t] = "loop"
    /\ _write(t, TRUE)
    /\ tpc' = [tpc EXCEPT ![t] = "wait_on"]
    /\ UNCHANGED << _THREADS, _blink_thread, stopping, remaining, nextId, ctl >>
    /\ UNCHANGED cancelPhase

\* _blink_device, lines 131-132: next element of the iterable, or the end of
\* the loop; then _write(True).
LoopNext(t) ==
    /\ tpc[t] = "loop"
    /\ IF remaining[t] = 0
          THEN /\ tpc' = [tpc EXCEPT ![t] = "done"]
               /\ UNCHANGED << remaining, pin, log, afterStop >>
          ELSE /\ remaining' = [remaining EXCEPT ![t] =
                                  IF @ = Forever THEN Forever ELSE @ - 1]
               /\ _write(t, TRUE)
               /\ tpc' = [tpc EXCEPT ![t] = "wait_on"]
    /\ UNCHANGED << _THREADS, _blink_thread, stopping, nextId, ctl >>
    /\ UNCHANGED cancelPhase

\* Variant of WaitOn: a cancelled unit drives the pin low before it ends.
WaitOnResets(t) ==
    /\ tpc[t] = "wait_on"
    /\ IF Wait = "go"
          THEN /\ tpc' = [tpc EXCEPT ![t] = "write_off"]
               /\ UNCHANGED << pin, log, afterStop >>
          ELSE /\ tpc' = [tpc EXCEPT ![t] = "done"]
               /\ _write(t, FALSE)
    /\ UNCHANGED << _THREADS, _blink_thread, stopping, remaining, nextId, ctl >>
    /\ cancelPhase' = IF Wait = "break" THEN "on" ELSE cancelPhase

\* Variant of WaitOn: line 133 sleeps for on_time without polling the Event.
WaitOnSleeps(t) ==
    /\ tpc[t] = "wait_on"
    /\ tpc' = [tpc EXCEPT ![t] = "write_off"]
    /\ UNCHANGED << _THREADS, _blink_thread, stopping, remaining, nextId, pin,
                    ctl, log, cancelPhase, afterStop >>

\* _blink_device, lines 133-134.
WaitOn(t) ==
    /\ tpc[t] = "wait_on"
    /\ tpc' = [tpc EXCEPT ![t] = IF Wait = "go" THEN "write_off" ELSE "done"]
    /\ UNCHANGED << _THREADS, _blink_thread, stopping, remaining, nextId, pin,
                    ctl, log >>
    /\ cancelPhase' = IF Wait = "break" THEN "on" ELSE cancelPhase
    /\ UNCHANGED afterStop

\* Variant of WriteOff: line 135 writes the active level again.
WriteOffActive(t) ==
    /\ tpc[t] = "write_off"
    /\ _write(t, TRUE)
    /\ tpc' = [tpc EXCEPT ![t] = "wait_off"]
    /\ UNCHANGED << _THREADS, _blink_thread, stopping, remaining, nextId, ctl >>
    /\ UNCHANGED cancelPhase

\* _blink_device, line 135.
WriteOff(t) ==
    /\ tpc[t] = "write_off"
    /\ _write(t, FALSE)
    /\ tpc' = [tpc EXCEPT ![t] = "wait_off"]
    /\ UNCHANGED << _THREADS, _blink_thread, stopping, remaining, nextId, ctl >>
    /\ UNCHANGED cancelPhase

\* _blink_device, lines 136-137.
WaitOff(t) ==
    /\ tpc[t] = "wait_off"
    /\ tpc' = [tpc EXCEPT ![t] = IF Wait = "go" THEN "loop" ELSE "done"]
    /\ UNCHANGED << _THREADS, _blink_thread, stopping, remaining, nextId, pin,
                    ctl, log >>
    /\ cancelPhase' = IF Wait = "break" THEN "off" ELSE cancelPhase
    /\ UNCHANGED afterStop

_blink_device == \E t \in TaskIds :
    LoopNext(t) \/ WaitOn(t) \/ WriteOff(t) \/ WaitOff(t)

\* ----------------------------------------------------------- behaviours

Next ==
    \/ LED_init
    \/ CallOn
    \/ CallOff
    \/ CallClose
    \/ CallBlink
    \/ StopBlink
    \/ JoinDead
    \/ JoinZombie
    \/ ClearBlinkThread
    \/ On
    \/ Off
    \/ Close
    \/ BlinkCreate
    \/ BlinkStart
    \/ BlinkJoin
    \/ BlinkClear
    \/ _blink_device

Spec == Init /\ [][Next]_vars

\* One step of the unit of task t.
UnitStep(t) == LoopNext(t) \/ WaitOn(t) \/ WriteOff(t) \/ WaitOff(t)

\* The steps of the controlling path that follow from the code without
\* waiting for anything but a dead unit: every step inside a call except
\* the expiry of the bounded join.
Proceed ==
    \/ StopBlink \/ JoinDead \/ ClearBlinkThread
    \/ On \/ Off \/ Close
    \/ BlinkCreate \/ BlinkStart \/ BlinkJoin \/ BlinkClear

\* Threads are scheduled: a started unit keeps taking steps (its driver
\* writes return and its timed waits end), and so does the controlling path
\* inside a call.
FairSpec ==
    /\ Spec
    /\ \A t \in TaskIds : WF_vars(UnitStep(t))
    /\ WF_vars(Proceed)

TypeOK ==
    /\ _THREADS \subseteq TaskIds
    /\ _blink_thread \in TaskIds \cup {NoThread}
    /\ stopping \in [TaskIds -> BOOLEAN]
    /\ tpc \in [TaskIds -> {"none", "created", "loop", "wait_on", "write_off",
                            "wait_off", "done"}]
    /\ remaining \in [TaskIds -> Counts]
    /\ nextId \in 1 .. MaxTasks + 1
    /\ pin \in {"unset", "high", "low"}
    /\ pc \in {"new", "idle", "stop", "join", "clear", "act", "start", "sjoin",
               "sclear"}
    /\ op \in {"none", "__init__", "on", "off", "close", "blink"}
    /\ arg_n \in Counts
    /\ arg_background \in BOOLEAN
    /\ result \in {"pending", "ok", "zombie"}
    /\ confirmed \subseteq TaskIds
    /\ cancelPhase \in {"none", "on", "off"}
    /\ afterStop \in 0 .. 2
    /\ Len(log) <= MaxLog

\* ------------------------------------------------------------ properties

Last(l) == l[Len(l)]

\* The entries of the history issued by toggle units.
UnitEntries == {i \in 1 .. Len(log) : log[i].by # Controller}

\* The pin writes of the history.
PinWrites == {i \in 1 .. Len(log) : log[i].ev \in {"high", "low"}}

\* Position in the history of the thread start of the current blink() call
\* (0 when there is none).
StartAt ==
    IF \E i \in 1 .. Len(log) : log[i].ev = "start"
       THEN CHOOSE i \in 1 .. Len(log) : log[i].ev = "start"
       ELSE 0

\* A synchronous blink() with a finite n has returned.
SyncBlinkReturned ==
    op = "blink" /\ ~ arg_background /\ result = "ok"

\* C1: at most one toggle unit of the device is alive in every reachable
\* state, also after calls that failed with ZombieThread, and the recorded
\* pin writes never have a write of one unit between two writes of another.
OneToggleUnit ==
    /\ Cardinality(Alive) <= 1
    /\ \A i, j, k \in UnitEntries :
          (i < j /\ j < k /\ log[i].by = log[k].by) => log[j].by = log[i].by

\* C1 witness: after a call that raised ZombieThread, a later blink() has
\* started a new unit, which has written, while the earlier unit is dead.
OneToggleUnitWitness ==
    /\ prevResult = "zombie"
    /\ op = "blink" /\ result = "ok"
    /\ callTarget # NoThread /\ tpc[callTarget] = "done"
    /\ _blink_thread # callTarget /\ is_alive(_blink_thread)
    /\ tpc[_blink_thread] = "wait_on"

\* C2: once off() has returned normally from a call made while a blink unit
\* was alive, and until the next call, that unit is dead, no unit is alive,
\* and the last pin write is the inactive level written by off().
OffStopsBlink ==
    (op = "off" /\ callAlive /\ result = "ok") =>
        /\ ~ is_alive(callTarget)
        /\ Alive = {}
        /\ pin = "low"
        /\ Len(log) > 0
        /\ Last(log) = Event(Controller, "low", 0)

\* C2 witness: off() returned after stopping a unit that was alive and that
\* wrote during the call.
OffStopsBlinkWitness ==
    /\ op = "off" /\ callAlive /\ result = "ok"
    /\ \E i \in UnitEntries : log[i].by = callTarget

\* C3: when a synchronous blink(n, background=False) with finite n returns,
\* the history after the start of its task holds exactly 2n pin writes, all
\* by that task, alternating and beginning with the active level.
SyncBlinkWrites ==
    SyncBlinkReturned =>
        /\ StartAt > 0
        /\ Len(log) - StartAt = 2 * arg_n
        /\ \A i \in 1 .. Len(log) - StartAt :
              log[StartAt + i] =
                  Event(log[StartAt].arg, IF i % 2 = 1 THEN "high" ELSE "low", 0)

\* C3 witness: a synchronous blink with the largest count returned, called
\* while an earlier unit was alive.
SyncBlinkWritesWitness ==
    SyncBlinkReturned /\ arg_n = MaxCount /\ callAlive

\* C4 as stated: whenever a synchronous blink with finite count >= 0 has
\* returned, the pin is at the inactive level.  (Stated for a pin that has
\* been written at least once, so that the level is defined.)
SyncBlinkEndsInactive ==
    (SyncBlinkReturned /\ pin # "unset") => pin = "low"

\* C4 amended: a synchronous blink with count >= 1 that has returned leaves
\* the pin inactive; with count = 0 its task has issued no write.
SyncBlinkEndsInactiveAmended ==
    SyncBlinkReturned =>
        /\ arg_n >= 1 => pin = "low"
        /\ arg_n = 0 => \A i \in UnitEntries : i < StartAt

\* C4 witness: a synchronous blink with count >= 1 returned right after an
\* on() call.
SyncBlinkEndsInactiveWitness ==
    SyncBlinkReturned /\ arg_n >= 1 /\ prevOp = "on" /\ prevResult = "ok"

\* C5: the bounded join of stop() ends in one of two ways: the unit is dead,
\* the task leaves _THREADS and the call goes on; or the unit is alive,
\* ZombieThread is raised and the task is still in _THREADS.
StopOutcomes ==
    [][(pc = "join" /\ pc' # "join") =>
          \/ /\ ~ is_alive(_blink_thread)
             /\ pc' = "clear" /\ result' = "pending"
             /\ _blink_thread \notin _THREADS'
          \/ /\ is_alive(_blink_thread)
             /\ pc' = "idle" /\ result' = "zombie"
             /\ _blink_thread \in _THREADS']_vars

\* C5 witness: a stop() that raised ZombieThread left its task registered,
\* and the stop() of the next call removed it.
StopOutcomesWitness ==
    /\ prevResult = "zombie"
    /\ pc = "clear"
    /\ callTarget # NoThread /\ callTarget \notin _THREADS

\* C6: a task is in _THREADS exactly when start() has been called on it and
\* no join on it has returned normally; every alive unit is in _THREADS.
RegistryMembership ==
    /\ _THREADS = {t \in TaskIds : started(t) /\ t \notin confirmed}
    /\ Alive \subseteq _THREADS

\* C6 witness: one task joined and out of the registry, and a later one
\* whose unit has finished but which is not yet joined and still in it.
RegistryMembershipWitness ==
    /\ \E t \in confirmed : t \notin _THREADS
    /\ \E t \in _THREADS : tpc[t] = "done"

\* C7: once a call has raised ZombieThread it is over, and the controlling
\* path has written no pin, not re-initialised the driver, and neither
\* created nor started a task.
ZombiePropagates ==
    result = "zombie" =>
        /\ pc = "idle"
        /\ \A i \in 1 .. Len(log) : log[i].by # Controller
        /\ \A t \in TaskIds : tpc[t] # "created"
        /\ nextId = Cardinality({t \in TaskIds : started(t)}) + 1

\* C7 witness: blink() raised ZombieThread while tasks were still available.
ZombiePropagatesWitness ==
    result = "zombie" /\ op = "blink" /\ nextId \in TaskIds

\* C8 as stated: whenever _stop_blink has exited, normally or by raising
\* ZombieThread, _blink_thread is None.
StopBlinkAlwaysClears ==
    (pc = "act" \/ result = "zombie") => _blink_thread = NoThread

\* C8 amended: _blink_thread is None when _stop_blink has returned normally;
\* when it has raised ZombieThread, _blink_thread is still the task that
\* failed to stop, and that task is in _THREADS.
StopBlinkClearsOnReturn ==
    /\ pc = "act" => _blink_thread = NoThread
    /\ result = "zombie" =>
          /\ _blink_thread # NoThread
          /\ _blink_thread = callTarget
          /\ _blink_thread \in _THREADS

\* C8 witness: _stop_blink has returned normally for a task whose stop had
\* raised ZombieThread in the call before.
StopBlinkClearsOnReturnWitness ==
    pc = "act" /\ prevResult = "zombie" /\ callTarget # NoThread

\* C9: the controlling path writes the pin, re-initialises the driver and
\* creates or starts a task only when no unit is alive, and in the history a
\* unit's entry follows a controller entry only if that entry started it.
ActsAfterStop ==
    /\ [][(pc \in {"act", "start"} /\ pc' # pc) => Alive = {}]_vars
    /\ [](\A i, j \in 1 .. Len(log) :
             (i < j /\ log[i].by = Controller /\ log[j].by # Controller) =>
                 log[i].ev = "start" /\ log[i].arg = log[j].by)

\* C9 witness: on() wrote after the unit it stopped had written during the
\* call.
ActsAfterStopWitness ==
    /\ op = "on" /\ result = "ok" /\ callAlive
    /\ Len(log) >= 2
    /\ Last(log).by = Controller
    /\ log[Len(log) - 1].by = callTarget

\* C10: during and after a close() that follows a close() that returned
\* normally, no ZombieThread is raised, no pin write is issued, there is no
\* current blink task and no unit is alive.
CloseIdempotent ==
    (op = "close" /\ prevOp = "close" /\ prevResult = "ok") =>
        /\ result # "zombie"
        /\ PinWrites = {}
        /\ _blink_thread = NoThread
        /\ Alive = {}

\* C10 witness: the second close() has returned, after an earlier blink task
\* had been stopped.
CloseIdempotentWitness ==
    /\ op = "close" /\ prevOp = "close" /\ prevResult = "ok"
    /\ result = "ok"
    /\ confirmed # {}

\* The task created by the current blink() call, once it exists.
NewTask == nextId - 1

\* C11: when blink(background=True) has returned normally, _blink_thread is
\* the task the call created and started, and it is in _THREADS; when
\* blink(background=False) has returned, that task's unit is dead, the task
\* is not in _THREADS, and _blink_thread is None.
BlinkPostcondition ==
    (op = "blink" /\ result = "ok") =>
        IF arg_background
           THEN /\ _blink_thread = NewTask
                /\ _blink_thread # callTarget
                /\ started(NewTask)
                /\ NewTask \in _THREADS
           ELSE /\ _blink_thread = NoThread
                /\ tpc[NewTask] = "done"
                /\ NewTask \notin _THREADS

\* C11 witness: a synchronous blink returned; it was called while the task
\* of an earlier background blink was the current one.
BlinkPostconditionWitness ==
    /\ op = "blink" /\ ~ arg_background /\ result = "ok" /\ arg_n = MaxCount
    /\ prevOp = "blink" /\ prevResult = "ok" /\ callTarget # NoThread

\* A blink(n=None, background=False) call.
SyncForever == op = "blink" /\ ~ arg_background /\ arg_n = Forever

\* C12: a blink(n=None, background=False) call never returns normally; once
\* it is in its join without timeout it stays there, with its unit alive
\* and that unit's Event not set.
SyncForeverBlocks ==
    /\ [](SyncForever => result # "ok")
    /\ []((SyncForever /\ pc = "sjoin") =>
             is_alive(_blink_thread) /\ ~ stopping[_blink_thread])
    /\ [][(SyncForever /\ pc = "sjoin") => pc' = "sjoin"]_vars

\* C12 witness: the caller is blocked in the join while the unit has filled
\* the history with writes.
SyncForeverBlocksWitness ==
    /\ SyncForever /\ pc = "sjoin"
    /\ Len(log) = MaxLog
    /\ \A i \in 1 .. Len(log) : log[i].by = _blink_thread

\* C13: a blink(n, background=False) call with finite n whose _stop_blink
\* has returned normally eventually returns normally, and no ZombieThread
\* is raised from its join without timeout.
SyncBlinkReturns ==
    /\ (op = "blink" /\ ~ arg_background /\ arg_n # Forever /\ pc = "act")
          ~> (op = "blink" /\ ~ arg_background /\ result = "ok")
    /\ [][pc = "sjoin" => result' # "zombie"]_vars

\* C13 witness: a synchronous blink with the largest count returned after
\* its preliminary stop ended a unit that was alive.
SyncBlinkReturnsWitness ==
    /\ op = "blink" /\ ~ arg_background /\ arg_n = MaxCount /\ result = "ok"
    /\ callAlive /\ callTarget \in confirmed

CancelAsymmetry ==
    /\ [][\A t \in TaskIds :
            /\ (tpc[t] = "wait_on" /\ tpc'[t] = "done") => pin' = "high"
            /\ (tpc[t] = "wait_off" /\ tpc'[t] = "done") => pin' = "low"
            /\ tpc[t] = "done" =>
                  /\ tpc'[t] = "done"
                  /\ (log' # log /\ Len(log') > 0) => Last(log').by # t]_vars
    /\ []((op = "close" /\ result = "ok" /\ cancelPhase = "on") => pin = "high")
    /\ []((op = "close" /\ result = "ok" /\ cancelPhase = "off") => pin = "low")

\* C15 witness: close() has returned after its stop cancelled a unit in the
\* on-phase, and the pin is at the active level.
CancelAsymmetryWitness ==
    /\ op = "close" /\ result = "ok" /\ callAlive
    /\ cancelPhase = "on" /\ pin = "high"

\* C18: the Event of an alive unit, once set, stays set, and a unit issues
\* at most one pin write after stop() has set its Event.
SignalSticks ==
    /\ [][\A t \in TaskIds : (is_alive(t) /\ stopping[t]) => stopping'[t]]_vars
    /\ [](afterStop <= 1)

\* C18 witness: a unit whose Event had been set wrote once more and then
\* left its loop.
SignalSticksWitness ==
    /\ afterStop = 1
    /\ callTarget # NoThread /\ stopping[callTarget] /\ tpc[callTarget] = "done"
    /\ cancelPhase # "none"

\* The units that are at one of their two waits.
Waiting == {t \in TaskIds : tpc[t] \in {"wait_on", "wait_off"}}

\* Outcome of a wait on the Event of task t itself.
OwnWait(t) == IF stopping[t] THEN "break" ELSE "go"

\* C16 as stated: a unit's wait does not read the device's _blink_thread:
\* whatever that reference is set to, reassigned or cleared, the wait polls
\* the unit's own Event.
WaitIgnoresReference ==
    \A t \in Waiting : \A ref \in TaskIds \cup {NoThread} : WaitOf(ref) = OwnWait(t)

\* C16 amended: a unit's wait looks the Event up through the device's
\* _blink_thread; in every reachable state the Event it finds there is the
\* unit's own.
WaitFindsOwnEvent ==
    \A t \in Waiting : Wait = OwnWait(t)

\* C16 witness: a unit is at a wait with its Event set, after a call that
\* raised ZombieThread.
WaitFindsOwnEventWitness ==
    /\ result = "zombie"
    /\ \E t \in Waiting : stopping[t] /\ Wait = "break"

\* C17: whenever a unit is alive, the device's _blink_thread is that unit's
\* task, also after calls that raised ZombieThread.
AliveUnitIsCurrent ==
    \A t \in Alive : _blink_thread = t

\* C17 witness: two calls in a row raised ZombieThread and the unit is still
\* alive and still the current task.
AliveUnitIsCurrentWitness ==
    /\ prevResult = "zombie" /\ result = "zombie"
    /\ is_alive(_blink_thread)

\* C19: a unit whose Event has been set while it is alive eventually ends,
\* and a bounded join eventually either runs out (ZombieThread) or returns
\* normally with the unit dead and the task out of _THREADS.
CancelTerminates ==
    /\ \A t \in TaskIds : (is_alive(t) /\ stopping[t]) ~> ~ is_alive(t)
    /\ (pc = "join") ~>
          \/ result = "zombie"
          \/ pc = "clear" /\ ~ is_alive(callTarget) /\ callTarget \notin _THREADS

\* C19 witness: stop() has returned normally for a unit that was alive when
\* the call began and that saw its Event set at a wait.
CancelTerminatesWitness ==
    /\ pc = "clear" /\ callAlive /\ cancelPhase # "none"
    /\ tpc[callTarget] = "done" /\ callTarget \notin _THREADS

\* A call is being or has been made on a device whose current task's unit
\* was already dead when the call began.
CalledOnFinished ==
    /\ op \in {"on", "off", "blink", "close"}
    /\ callTarget # NoThread /\ ~ callAlive

\* C20: between calls the device's reference and the registry do not change,
\* so a task whose unit has run out on its own is still referenced and still
\* in _THREADS; the next call raises no ZombieThread for it, has it out of
\* _THREADS once its stop has returned, acts only after that, and ends with
\* its action done.
FinishedTaskCollected ==
    /\ [][(pc = "idle" /\ pc' = "idle") =>
             _blink_thread' = _blink_thread /\ _THREADS' = _THREADS]_vars
    /\ []((/\ pc = "idle" /\ _blink_thread # NoThread
           /\ tpc[_blink_thread] = "done" /\ ~ stopping[_blink_thread])
              => _blink_thread \in _THREADS)
    /\ [](CalledOnFinished =>
             /\ result # "zombie"
             /\ pc \in {"clear", "act", "start", "sjoin", "sclear"} =>
                   callTarget \notin _THREADS
             /\ \A i \in 1 .. Len(log) :
                   log[i].by = Controller => callTarget \notin _THREADS
             /\ result = "ok" =>
                   /\ callTarget \notin _THREADS
                   /\ op = "on" => Last(log) = Event(Controller, "high", 0)
                   /\ op = "off" => Last(log) = Event(Controller, "low", 0)
                   /\ op = "close" => Last(log) = Event(Controller, "init", 0)
                   /\ op = "blink" => started(NewTask) /\ NewTask # callTarget)

\* C20 witness: off() has returned normally; it was called right after a
\* background blink whose unit had run out on its own before the call.
FinishedTaskCollectedWitness ==
    /\ CalledOnFinished /\ op = "off" /\ result = "ok"
    /\ prevOp = "blink" /\ prevResult = "ok"
    /\ cancelPhase = "none" /\ afterStop = 0

====
